---- MODULE Spec2Model ----
(***************************************************************************)
(* al::semaphore (common/alsem.cpp): a counting semaphore with four        *)
(* build-time backends (Win32 kernel semaphore, libdispatch semaphore,     *)
(* Mach semaphore plus an atomic counter, POSIX unnamed semaphore).        *)
(*                                                                         *)
(* One instance is modelled.  `backend` is the build configuration.  Each  *)
(* thread issues post / wait / try_wait calls; every access to the shared  *)
(* state (an OS call on the native object, an atomic operation on          *)
(* mSem.value) is one step.                                                *)
(***************************************************************************)
EXTENDS Integers, Sequences, FiniteSets

\* ---------------------------------------------------------------- bounds
\* Spec: NThreads threads make at most MaxCalls calls on an instance.
NThreads == 3
MaxCalls == 5
\* DeepSpec: fewer threads make longer runs.
DeepThreads == 2
DeepCalls == 8
\* std::numeric_limits<int>::max(), scaled down.  SEM_VALUE_MAX has the same
\* value; unsigned int, long and intptr_t are wider and never wrap here.
IntMax == 1

Threads    == 1..NThreads
Backends   == {"Windows", "Dispatch", "Mach", "Posix"}
MaxInitial == IntMax + 1

VARIABLES
    backend,    \* the backend compiled in (#ifdef _WIN32 / AL_APPLE_HAVE_DISPATCH / __APPLE__)
    status,     \* "none" before the constructor, "live", "failed" (it threw),
                \* or "destroyed" (the destructor has run)
    error,      \* the std::errc the constructor threw, or "none"
    allocated,  \* number of OS semaphore objects currently allocated
    initial,    \* the constructor's argument
    sem,        \* count of the native / kernel semaphore object (mSem, mSem.sem)
    semq,       \* threads suspended inside the OS wait call, in arrival order
    value,      \* Mach backend: the atomic counter mSem.value
    pc,         \* each thread's position inside its current call
    op,         \* each thread's current call: "none", "post", "wait", "try_wait"
    orig,       \* Mach try_wait: the local `orig`
    kret,       \* result of the thread's last OS wait call
    n,          \* counts of calls started and of their outcomes
    overlap,    \* TRUE once two calls have been in flight at the same time
    firstOp,    \* the kind of the first call made on the instance
    limit,      \* how many threads call, and how many calls an instance gets
    reg         \* threads inside a wait() that found no token, in the order of
                \* their wait calls (Mach: of their fetch_sub)

vars == <<backend, status, error, allocated, initial, sem, semq, value,
          pc, op, orig, kret, n, overlap, firstOp, limit, reg>>

Counters == [postStarted |-> 0, postOk |-> 0, postErr |-> 0,
             waitStarted |-> 0, waitRet |-> 0,
             tryStarted |-> 0, tryTrue |-> 0, tryFalse |-> 0]

Calls == n.postStarted + n.waitStarted + n.tryStarted

Start(threads, calls) ==
    /\ limit = [threads |-> threads, calls |-> calls]
    /\ backend \in Backends
    /\ status = "none"
    /\ error = "none"
    /\ allocated = 0
    /\ initial = 0
    /\ sem = 0
    /\ semq = <<>>
    /\ value = 0
    /\ pc = [t \in Threads |-> "idle"]
    /\ op = [t \in Threads |-> "none"]
    /\ orig = [t \in Threads |-> 0]
    /\ kret = [t \in Threads |-> "none"]
    /\ n = Counters
    /\ overlap = FALSE
    /\ firstOp = "none"
    /\ reg = <<>>

Init == Start(NThreads, MaxCalls)

DeepInit == Start(DeepThreads, DeepCalls)

\* ------------------------------------------------------------ constructor

\* The largest initial count the OS creation call accepts.  CreateSemaphore
\* is given lMaximumCount = INT_MAX; sem_init rejects values above
\* SEM_VALUE_MAX; dispatch_semaphore_create takes a long and the Mach
\* backend creates the kernel object with 0, so neither rejects any
\* unsigned int.
CreateAccepts(b, i) ==
    IF b \in {"Windows", "Posix"} THEN i <= IntMax ELSE TRUE

\* The error the constructor throws, or "none".  osOk is whether the OS had
\* the resources to create the object.
ConstructError(b, i, osOk) ==
    IF b = "Windows" /\ i > IntMax THEN "InvalidArgument"
    ELSE IF ~CreateAccepts(b, i) \/ ~osOk THEN "ResourceUnavailable"
    ELSE "none"

Construct(i, osOk) ==
    /\ status \in {"none", "failed", "destroyed"}
    /\ initial' = i
    /\ error' = ConstructError(backend, i, osOk)
    /\ IF error' = "none"
       THEN /\ status' = "live"
            /\ allocated' = allocated + 1
            /\ sem' = IF backend = "Mach" THEN 0 ELSE i
            /\ value' = IF backend = "Mach" THEN i ELSE 0
       ELSE /\ status' = "failed"
            /\ UNCHANGED <<allocated, sem, value>>
    /\ UNCHANGED <<backend, semq, pc, op, orig, kret, n, overlap, firstOp, limit, reg>>

\* ------------------------------------------------------------- destructor

\* CloseHandle / dispatch_release / semaphore_destroy / sem_destroy on the
\* instance's object: a objects allocated before, the result after.
Release_Kept(a) == a
Release(a) == a - 1

\* ~semaphore(), called when no thread is inside a call on the instance
\* (anything else is undefined by design).  The instance and what was
\* recorded about it are gone afterwards.
Destroy ==
    /\ status = "live"
    /\ \A t \in Threads : pc[t] = "idle"
    /\ status' = "destroyed"
    /\ allocated' = Release(allocated)
    /\ error' = "none"
    /\ initial' = 0
    /\ sem' = 0
    /\ value' = 0
    /\ n' = Counters
    /\ overlap' = FALSE
    /\ firstOp' = "none"
    /\ UNCHANGED <<backend, semq, pc, op, orig, kret, limit, reg>>

\* --------------------------------------------------------- call bookkeeping

Busy(t) == \E u \in Threads \ {t} : op[u] # "none"

\* Thread t may begin a call on the instance.
CanCall(t) ==
    /\ status = "live" /\ pc[t] = "idle"
    /\ t <= limit.threads /\ Calls < limit.calls

Started(t, kind) ==
    /\ limit' = limit
    /\ overlap' = (overlap \/ Busy(t))
    /\ firstOp' = IF firstOp = "none" THEN kind ELSE firstOp

\* The counters after thread t's call of `kind` began (began = TRUE) and,
\* when res # "pending", returned res.
Count(kind, began, res) ==
    LET a == IF began
             THEN CASE kind = "post"     -> [n EXCEPT !.postStarted = @ + 1]
                    [] kind = "wait"     -> [n EXCEPT !.waitStarted = @ + 1]
                    [] kind = "try_wait" -> [n EXCEPT !.tryStarted = @ + 1]
             ELSE n
    IN  CASE res = "pending"  -> a
          [] res = "ok"       -> [a EXCEPT !.postOk = @ + 1]
          [] res = "overflow" -> [a EXCEPT !.postErr = @ + 1]
          [] res = "returned" -> [a EXCEPT !.waitRet = @ + 1]
          [] res = "true"     -> [a EXCEPT !.tryTrue = @ + 1]
          [] res = "false"    -> [a EXCEPT !.tryFalse = @ + 1]

\* ------------------------------------------------------- the OS primitives

\* Indexes of the suspended threads a signal may release: none when nobody is
\* suspended, the longest waiter under SYNC_POLICY_FIFO, any of them otherwise.
WakeChoices_Any == IF semq = <<>> THEN {0} ELSE 1..Len(semq)
WakeChoices ==
    IF semq = <<>> THEN {0}
    ELSE IF backend = "Mach" THEN {1}
    ELSE 1..Len(semq)

Remove(q, i) == [j \in 1..(Len(q) - 1) |-> IF j < i THEN q[j] ELSE q[j + 1]]

IndexOf(q, t) == CHOOSE i \in 1..Len(q) : q[i] = t

\* reg once thread t's call has returned.
Unregister(t) ==
    IF \E i \in 1..Len(reg) : reg[i] = t THEN Remove(reg, IndexOf(reg, t)) ELSE reg

\* Whether the native primitive refuses one more token.
AtMaximum == backend \in {"Windows", "Posix"} /\ sem >= IntMax


\* The state of the OS object and of the released thread after one signal
\* (ReleaseSemaphore, dispatch_semaphore_signal, semaphore_signal, sem_post)
\* that releases the thread at index i of semq, or adds a token when i = 0.
SignalSem(i)  == IF i = 0 THEN sem + 1 ELSE sem
SignalSemq(i) == IF i = 0 THEN semq ELSE Remove(semq, i)
SignalPc(i, p) == IF i = 0 THEN p ELSE [p EXCEPT ![semq[i]] = "ret"]
SignalKret(i) == IF i = 0 THEN kret ELSE [kret EXCEPT ![semq[i]] = "success"]

\* ---------------------------------------------------------------- post()

\* Mach backend: `if (val <= 0)` on the value fetch_add returned.
MachPostSignals(val) == val <= 0

\* Windows and POSIX backends: `if(!ReleaseSemaphore(...)) throw value_too_large`,
\* `if(sem_post(&mSem) != 0) throw value_too_large`.
PostResult_Swallowed(released) == "ok"
PostResult(released) == IF released THEN "ok" ELSE "overflow"

PostCall(t) ==
    /\ CanCall(t)
    /\ Started(t, "post")
    /\ IF backend = "Mach"
       THEN /\ value' = value + 1
            /\ IF MachPostSignals(value)
               THEN /\ pc' = [pc EXCEPT ![t] = "signal"]
                    /\ op' = [op EXCEPT ![t] = "post"]
                    /\ n' = Count("post", TRUE, "pending")
               ELSE /\ n' = Count("post", TRUE, "ok")
                    /\ UNCHANGED <<pc, op>>
            /\ UNCHANGED <<sem, semq, kret>>
       ELSE IF AtMaximum
       THEN /\ n' = Count("post", TRUE, PostResult(FALSE))
            /\ UNCHANGED <<sem, semq, value, pc, op, kret>>
       ELSE \E i \in WakeChoices :
            /\ sem' = SignalSem(i)
            /\ semq' = SignalSemq(i)
            /\ pc' = SignalPc(i, pc)
            /\ kret' = SignalKret(i)
            /\ n' = Count("post", TRUE, PostResult(TRUE))
            /\ UNCHANGED <<value, op>>
    /\ UNCHANGED <<backend, status, error, allocated, initial, orig, reg>>

\* Mach backend: semaphore_signal(mSem.sem).
PostSignal(t) ==
    /\ pc[t] = "signal"
    /\ \E i \in WakeChoices :
        /\ sem' = SignalSem(i)
        /\ semq' = SignalSemq(i)
        /\ pc' = SignalPc(i, [pc EXCEPT ![t] = "idle"])
        /\ kret' = SignalKret(i)
    /\ op' = [op EXCEPT ![t] = "none"]
    /\ n' = Count("post", FALSE, "ok")
    /\ UNCHANGED <<backend, status, error, allocated, initial, value, orig,
                   overlap, firstOp, limit, reg>>

\* ---------------------------------------------------------------- wait()

\* Mach backend: `if (val < 0)` on the value fetch_sub returned.
MachWaitBlocks(val) == val < 0

WaitCall(t) ==
    /\ CanCall(t)
    /\ Started(t, "wait")
    /\ IF backend = "Mach"
       THEN /\ value' = value - 1
            /\ IF MachWaitBlocks(value)
               THEN /\ pc' = [pc EXCEPT ![t] = "kwait"]
                    /\ op' = [op EXCEPT ![t] = "wait"]
                    /\ n' = Count("wait", TRUE, "pending")
                    /\ reg' = Append(reg, t)
               ELSE /\ n' = Count("wait", TRUE, "returned")
                    /\ UNCHANGED <<pc, op, reg>>
            /\ UNCHANGED <<sem, semq>>
       ELSE IF sem > 0
       THEN /\ sem' = sem - 1
            /\ n' = Count("wait", TRUE, "returned")
            /\ UNCHANGED <<semq, value, pc, op, reg>>
       ELSE /\ semq' = Append(semq, t)
            /\ pc' = [pc EXCEPT ![t] = "blocked"]
            /\ op' = [op EXCEPT ![t] = "wait"]
            /\ n' = Count("wait", TRUE, "pending")
            /\ reg' = Append(reg, t)
            /\ UNCHANGED <<sem, value>>
    /\ UNCHANGED <<backend, status, error, allocated, initial, orig, kret>>

\* What the call that made the OS wait returns once the OS wait has returned r.
\* Mach wait ignores r; Mach try_wait returns r == KERN_SUCCESS; the POSIX
\* loop is only left when sem_wait succeeded.
Outcome(kind, r) ==
    IF kind = "wait" THEN "returned"
    ELSE IF r = "success" THEN "true" ELSE "false"

\* The OS wait call of a thread that is about to make it: semaphore_wait in
\* the Mach wait and try_wait, sem_wait made again by the POSIX loop.
KernelWait(t) ==
    /\ pc[t] = "kwait"
    /\ IF sem > 0
       THEN /\ sem' = sem - 1
            /\ pc' = [pc EXCEPT ![t] = "idle"]
            /\ op' = [op EXCEPT ![t] = "none"]
            /\ orig' = [orig EXCEPT ![t] = 0]
            /\ n' = Count(op[t], FALSE, Outcome(op[t], "success"))
            /\ reg' = Unregister(t)
            /\ UNCHANGED semq
       ELSE /\ semq' = Append(semq, t)
            /\ pc' = [pc EXCEPT ![t] = "blocked"]
            /\ UNCHANGED <<sem, op, orig, n, reg>>
    /\ UNCHANGED <<backend, status, error, allocated, initial, value, kret,
                   overlap, firstOp, limit>>

\* Whether the backend's wait() makes the OS call again after an interruption.
RetriesInterrupted(b) == b = "Posix"

\* The OS wait of a suspended thread is interrupted: sem_wait returns -1 with
\* EINTR, semaphore_wait returns KERN_ABORTED.  WaitForSingleObject (not
\* alertable) and dispatch_semaphore_wait are not interrupted.
Interrupt(t) ==
    /\ pc[t] = "blocked"
    /\ backend \in {"Posix", "Mach"}
    /\ semq' = Remove(semq, IndexOf(semq, t))
    /\ IF RetriesInterrupted(backend)
       THEN /\ pc' = [pc EXCEPT ![t] = "kwait"]
            /\ UNCHANGED kret
       ELSE /\ pc' = [pc EXCEPT ![t] = "ret"]
            /\ kret' = [kret EXCEPT ![t] = "aborted"]
    /\ UNCHANGED <<backend, status, error, allocated, initial, sem, value,
                   op, orig, n, overlap, firstOp, limit, reg>>

\* The OS wait call has returned and the call returns to its caller.
Return(t) ==
    /\ pc[t] = "ret"
    /\ pc' = [pc EXCEPT ![t] = "idle"]
    /\ op' = [op EXCEPT ![t] = "none"]
    /\ orig' = [orig EXCEPT ![t] = 0]
    /\ kret' = [kret EXCEPT ![t] = "none"]
    /\ n' = Count(op[t], FALSE, Outcome(op[t], kret[t]))
    /\ reg' = Unregister(t)
    /\ UNCHANGED <<backend, status, error, allocated, initial, sem, semq,
                   value, overlap, firstOp, limit>>

\* ------------------------------------------------------------ try_wait()

\* Mach backend: `while (orig < 0)`.
MachTryCancels(o) == o < 0

TryWaitCall(t) ==
    /\ CanCall(t)
    /\ Started(t, "try_wait")
    /\ IF backend = "Mach"
       THEN /\ orig' = [orig EXCEPT ![t] = value]
            /\ pc' = [pc EXCEPT ![t] = IF MachTryCancels(value) THEN "cas" ELSE "kwait"]
            /\ op' = [op EXCEPT ![t] = "try_wait"]
            /\ n' = Count("try_wait", TRUE, "pending")
            /\ UNCHANGED sem
       ELSE IF sem > 0
       THEN /\ sem' = sem - 1
            /\ n' = Count("try_wait", TRUE, "true")
            /\ UNCHANGED <<pc, op, orig>>
       ELSE /\ n' = Count("try_wait", TRUE, "false")
            /\ UNCHANGED <<sem, pc, op, orig>>
    /\ UNCHANGED <<backend, status, error, allocated, initial, semq, value, kret, reg>>

\* Mach backend: compare_exchange_weak(orig, orig+1).  On success try_wait
\* returns false; on failure orig is reloaded and the loop condition is
\* evaluated again.  (A spurious failure with value = orig changes nothing.)
TryWaitCas(t) ==
    /\ pc[t] = "cas"
    /\ IF value = orig[t]
       THEN /\ value' = orig[t] + 1
            /\ pc' = [pc EXCEPT ![t] = "idle"]
            /\ op' = [op EXCEPT ![t] = "none"]
            /\ orig' = [orig EXCEPT ![t] = 0]
            /\ n' = Count("try_wait", FALSE, "false")
       ELSE /\ orig' = [orig EXCEPT ![t] = value]
            /\ pc' = [pc EXCEPT ![t] = IF MachTryCancels(value) THEN "cas" ELSE "kwait"]
            /\ UNCHANGED <<value, op, n>>
    /\ UNCHANGED <<backend, status, error, allocated, initial, sem, semq, kret,
                   overlap, firstOp, limit, reg>>

\* ---------------------------------------------------------- specification

Next ==
    \/ \E i \in 0..MaxInitial, osOk \in BOOLEAN : Construct(i, osOk)
    \/ Destroy
    \/ \E t \in Threads : PostCall(t)
    \/ \E t \in Threads : PostSignal(t)
    \/ \E t \in Threads : WaitCall(t)
    \/ \E t \in Threads : KernelWait(t)
    \/ \E t \in Threads : Interrupt(t)
    \/ \E t \in Threads : Return(t)
    \/ \E t \in Threads : TryWaitCall(t)
    \/ \E t \in Threads : TryWaitCas(t)

Spec == Init /\ [][Next]_vars

DeepSpec == DeepInit /\ [][Next]_vars


\* ------------------------------------------------------------- properties

InCall(t, kind) == op[t] = kind
Suspended(t)    == pc[t] = "blocked"
Quiescent       == \A t \in Threads : pc[t] \in {"idle", "blocked"}

\* C1 -- token conservation: the wait calls that have returned plus the
\* try_wait calls that returned true never exceed the initial count plus the
\* post calls started; and once all calls have quiesced, with as many waits as
\* successful posts on an initially empty semaphore and no try_wait, every
\* wait has returned.
C1_TokenConservation ==
    status = "live" =>
        /\ n.waitRet + n.tryTrue <= initial + n.postStarted
        /\ (Quiescent /\ initial = 0 /\ n.tryStarted = 0 /\ n.waitStarted = n.postOk)
               => n.waitRet = n.postOk

\* C2 -- a wait call on a semaphore constructed with 0 tokens does not return
\* before some post call has been made.
C2_WaitBlocksUntilPost ==
    (status = "live" /\ initial = 0 /\ n.postStarted = 0) => n.waitRet = 0

\* C3 -- with N initial tokens and nothing but sequential try_wait calls, no
\* try_wait call is left suspended, the first N return true and every later
\* one returns false.
C3_TryWaitDrainsInitial ==
    (status = "live" /\ ~overlap /\ n.postStarted = 0 /\ n.waitStarted = 0) =>
        /\ \A t \in Threads : ~Suspended(t)
        /\ Quiescent =>
              /\ n.tryTrue + n.tryFalse = n.tryStarted
              /\ n.tryTrue = IF n.tryStarted <= initial THEN n.tryStarted ELSE initial

\* C4 -- post and try_wait never block: a thread inside post or try_wait is
\* never suspended in the OS wait.
C4_PostTryWaitNeverBlock ==
    \A t \in Threads : (InCall(t, "post") \/ InCall(t, "try_wait")) => ~Suspended(t)

\* C5 -- with two or more threads suspended inside wait on an empty
\* semaphore, a step releases a suspended wait call to its caller only if it is
\* a post's signal, and that signal releases exactly one of them while the
\* others stay suspended.
WaitSuspended(t) == InCall(t, "wait") /\ Suspended(t)
Released(t)      == WaitSuspended(t) /\ pc'[t] = "ret"
C5_PostReleasesExactlyOne ==
    [][ (sem = 0 /\ Cardinality({t \in Threads : WaitSuspended(t)}) >= 2
             /\ \E t \in Threads : Released(t))
        => /\ n'.postOk = n.postOk + 1
           /\ Cardinality({t \in Threads : Released(t)}) = 1
           /\ \A t \in Threads : WaitSuspended(t) /\ ~Released(t) => WaitSuspended(t)' ]_vars

\* C6 -- no lost wakeup: when every call that can proceed by itself has
\* finished and the initial count plus the completed posts covers the waits
\* started plus the try_waits that returned true, no wait call is suspended.
Covered == initial + n.postOk >= n.waitStarted + n.tryTrue
C6_NoLostWakeup ==
    (status = "live" /\ Quiescent /\ Covered) => \A t \in Threads : ~WaitSuspended(t)

\* C7 -- round trip: on a semaphore constructed with 0 tokens, post() and
\* then sequential try_wait() calls: the first returns true, the following
\* ones return false, none is left suspended.
C7_RoundTrip ==
    (status = "live" /\ initial = 0 /\ ~overlap /\ firstOp = "post"
        /\ n.postStarted = 1 /\ n.waitStarted = 0) =>
        /\ \A t \in Threads : ~Suspended(t)
        /\ (Quiescent /\ n.tryStarted >= 1) =>
               n.tryTrue = 1 /\ n.tryFalse = n.tryStarted - 1

\* C8 -- an interrupted OS wait is invisible: wait does not return to its
\* caller from an OS wait that was interrupted.
C8_WaitRetriesInterrupted ==
    \A t \in Threads : (InCall(t, "wait") /\ pc[t] = "ret") => kret[t] = "success"

\* C9 -- a constructor call whose initial count the platform rejects reports
\* InvalidArgument and leaves nothing allocated.
C9_OversizedInitial ==
    (status = "failed" /\ ~CreateAccepts(backend, initial)) =>
        error = "InvalidArgument" /\ allocated = 0

\* The backend's token counter: mSem.value on the Mach backend, the native
\* object's count less its suspended threads elsewhere.
Tokens == IF backend = "Mach" THEN value ELSE sem - Len(semq)

\* C10 -- error taxonomy of post: a post call reports Overflow only on the
\* Windows and POSIX backends and only when the native count is at its maximum,
\* and then changes neither the count nor any thread; every other post call
\* adds exactly one to the token count.  wait and try_wait report nothing.
IsPostCall == n'.postStarted = n.postStarted + 1
C10_PostErrorTaxonomy ==
    [][ status' = "live" =>
        /\ n'.postErr # n.postErr => IsPostCall
        /\ IsPostCall =>
              IF n'.postErr = n.postErr + 1
              THEN /\ backend \in {"Windows", "Posix"}
                   /\ sem = IntMax
                   /\ Tokens' = Tokens /\ semq' = semq /\ pc' = pc
              ELSE /\ n'.postErr = n.postErr
                   /\ Tokens' = Tokens + 1 ]_vars
\* A post call has reported Overflow and another has succeeded.
C10_Witness == n.postErr > 0 /\ n.postOk > 0


\* C11 -- no leak, single release: the number of allocated OS semaphore
\* objects equals the number of live instances (one while the instance is
\* live, none before construction, after a constructor that threw and after
\* the destructor).
LiveInstances == IF status = "live" THEN 1 ELSE 0
C11_NoLeak == allocated = LiveInstances
\* The destructor has run on an instance that was constructed.
C11_Witness == status = "destroyed" /\ allocated = 0


\* Thread a precedes thread b in the sequence q.
Before(q, a, b) == IndexOf(q, a) < IndexOf(q, b)
SignalReleased(t) == Released(t) /\ kret'[t] = "success"

\* C12 as stated -- on the Mach backend a post's signal releases, among the
\* threads suspended in wait, the one whose wait call registered (performed
\* its decrement) first.
C12_FifoByRegistration ==
    [][ backend = "Mach" =>
          \A t \in Threads : SignalReleased(t) =>
              \A u \in Threads \ {t} : WaitSuspended(u) => Before(reg, t, u) ]_vars

\* C12 as amended -- on the Mach backend a post's signal releases, among the
\* threads suspended in wait, the one whose semaphore_wait was queued on the
\* kernel semaphore first.
C12_FifoByKernelQueue ==
    [][ backend = "Mach" =>
          \A t \in Threads : SignalReleased(t) =>
              \A u \in Threads \ {t} : WaitSuspended(u) => Before(semq, t, u) ]_vars
\* A post has released one thread suspended in wait while another is still
\* suspended behind it.
C12_Witness ==
    /\ backend = "Mach"
    /\ \E t \in Threads, u \in Threads :
          /\ InCall(t, "wait") /\ pc[t] = "ret" /\ kret[t] = "success"
          /\ WaitSuspended(u)


\* Threads that have decremented in wait, found no token and have not been
\* released: about to call semaphore_wait, or suspended in it.
Waiting == {t \in Threads : InCall(t, "wait") /\ pc[t] \in {"kwait", "blocked"}}
IsWaitCall == n'.waitStarted = n.waitStarted + 1

\* C13 -- Mach wait step: wait decrements the counter by one and goes on to
\* the kernel wait exactly when the value after the decrement is negative.
C13_MachWaitStep ==
    [][ (backend = "Mach" /\ IsWaitCall) =>
          /\ value' = value - 1
          /\ (\E t \in Threads : pc[t] = "idle" /\ pc'[t] = "kwait") <=> value' < 0 ]_vars

\* C14 -- Mach post step: post increments the counter by one and goes on to
\* signal the kernel semaphore only when some thread is registered as
\* waiting, so the kernel semaphore never holds a signal that no registered
\* waiter is about to consume.
C14_MachPostStep ==
    [][ (backend = "Mach" /\ status' = "live") =>
          /\ IsPostCall =>
                /\ value' = value + 1
                /\ (\E t \in Threads : pc'[t] = "signal" /\ pc[t] = "idle") => Waiting # {}
          /\ sem' <= Cardinality({t \in Threads : InCall(t, "wait")' /\ pc'[t] = "kwait"}) ]_vars

\* Tokens produced and not handed to a wait or try_wait call.
Granted   == {t \in Threads : pc[t] = "ret" /\ kret[t] = "success"}
Available == initial + n.postStarted - n.postErr - n.waitRet - n.tryTrue
                 - Cardinality(Granted)

\* Signals on their way to a waiting thread: posts that have incremented the
\* counter and are about to signal, and signals held by the kernel semaphore.
Signalled == Cardinality({t \in Threads : pc[t] = "signal"}) + sem

\* C15 -- Mach counter encoding: a negative counter is minus the number of
\* waiting threads that have not been signalled, a non-negative counter is
\* the number of available tokens (those not already signalled to a waiter).
C15_MachCounterEncoding ==
    (backend = "Mach" /\ status = "live") =>
        IF value < 0 THEN -value = Cardinality(Waiting) - Signalled
        ELSE value = Available - Signalled

\* C16 -- a try_wait call that returns false leaves the semaphore as it was:
\* the token count, the suspended threads, the Mach counter and the kernel
\* semaphore count are unchanged by the step on which it returns false.
C16_FailedTryWaitNoEffect ==
    [][ (status' = "live" /\ n'.tryFalse = n.tryFalse + 1) =>
          /\ Tokens' = Tokens
          /\ semq' = semq
          /\ value' = value
          /\ sem' = sem ]_vars

\* C17 -- the outcomes are those of one native counting semaphore with the
\* same initial count: the tokens handed out never exceed the tokens
\* produced, try_wait is never suspended, and when nothing can move a wait is
\* suspended only if no token is left.
C17_RefinesCountingSemaphore ==
    status = "live" =>
        /\ Available >= 0
        /\ \A t \in Threads : InCall(t, "try_wait") => ~Suspended(t)
        /\ (Quiescent /\ \E t \in Threads : WaitSuspended(t)) => Available = 0

\* C18 -- Mach try_wait uses the same account as wait and post: a try_wait
\* that returns true has taken one from the counter, and a try_wait is not
\* left suspended while the counter holds tokens.
C18_MachTryWaitAccount ==
    [][ (backend = "Mach" /\ status' = "live") =>
          /\ n'.tryTrue = n.tryTrue + 1 => value' = value - 1
          /\ \A t \in Threads :
                (InCall(t, "try_wait")' /\ pc'[t] = "blocked") => value' <= 0 ]_vars

====
